---- MODULE Spec2Model ----
(***************************************************************************)
(* Dependency analysis of src/src/src/automation/dependency_analyzer.py:   *)
(* DependencyGraph.from_tasks (edge inference from free-text references,   *)
(* cycle detection, critical path, readiness) and get_analysis_summary.    *)
(*                                                                         *)
(* A Python str is a sequence of tokens (words, blanks, "#", digits); a    *)
(* Python dict is an association list that keeps insertion order; hours    *)
(* (floats in the source) are integers counted in hundredths of an hour.   *)
(***************************************************************************)
EXTENDS Integers, Sequences, FiniteSets, TLC

VARIABLES tasks, pc, nodes, edges, reverse_edges,
          visited, rec_stack, cycles, root,
          in_degree, queue, longest_path, critical_path, current, current_distance,
          blocked_tasks, ready_tasks, summary,
          first, other, popped

vars == <<tasks, pc, nodes, edges, reverse_edges,
          visited, rec_stack, cycles, root,
          in_degree, queue, longest_path, critical_path, current, current_distance,
          blocked_tasks, ready_tasks, summary,
          first, other, popped>>

(***************************************************************************)
(* Bounds of the model.                                                    *)
(***************************************************************************)
MaxTasks == 3

(***************************************************************************)
(* Python dict: insertion-ordered association list of [k, v] entries.      *)
(***************************************************************************)
DictHas(d, k) == \E i \in 1..Len(d) : d[i].k = k

DictGet(d, k, default) ==
    IF DictHas(d, k) THEN d[CHOOSE i \in 1..Len(d) : d[i].k = k].v ELSE default

DictPut(d, k, v) ==
    IF DictHas(d, k)
    THEN [i \in 1..Len(d) |-> IF d[i].k = k THEN [k |-> k, v |-> v] ELSE d[i]]
    ELSE Append(d, [k |-> k, v |-> v])

DictKeys(d) == [i \in 1..Len(d) |-> d[i].k]

KeySet(d) == {d[i].k : i \in 1..Len(d)}

Range(s) == {s[i] : i \in 1..Len(s)}

(***************************************************************************)
(* Strings.  str.lower() and the substring tests of lines 45-65 on the     *)
(* token alphabet used by the inputs below.                                *)
(***************************************************************************)
Digits == {"0", "1", "2", "3", "4", "9"}

Blanks == {" "}

LowerTok(t) ==
    CASE t = "Task" -> "task"
      [] t = "TASK" -> "task"
      [] t = "Tasks" -> "tasks"
      [] t = "Testing" -> "testing"
      [] t = "Pipeline" -> "pipeline"
      [] t = "AAR" -> "aar"
      [] t = "Automation" -> "automation"
      [] OTHER -> t

lower(s) == [i \in 1..Len(s) |-> LowerTok(s[i])]

RECURSIVE lstrip(_)
lstrip(s) == IF s # <<>> /\ Head(s) \in Blanks THEN lstrip(Tail(s)) ELSE s

RECURSIVE rstrip(_)
rstrip(s) ==
    IF s # <<>> /\ s[Len(s)] \in Blanks THEN rstrip(SubSeq(s, 1, Len(s) - 1)) ELSE s

strip(s) == rstrip(lstrip(s))

\* kw occurs inside the (lower-case) token t
TokContains(t, kw) ==
    \/ t = kw
    \/ kw = "task" /\ t \in {"tasks", "subtask"}
    \/ kw = "aar" /\ t \in {"aars"}

\* t ends with "task", so that the pattern's "task" can be followed by \s*#?\d+
TokEndsWithTask(t) == t \in {"task", "subtask"}

\* kw in s
Contains(s, kw) == \E i \in 1..Len(s) : TokContains(s[i], kw)

(***************************************************************************)
(* re.findall(r'task\s*#?(\d+)', s): the digit groups of the               *)
(* non-overlapping matches, left to right.                                 *)
(***************************************************************************)
RECURSIVE SkipBlanks(_, _)
SkipBlanks(s, i) == IF i <= Len(s) /\ s[i] \in Blanks THEN SkipBlanks(s, i + 1) ELSE i

RECURSIVE DigitsEnd(_, _)
DigitsEnd(s, i) == IF i <= Len(s) /\ s[i] \in Digits THEN DigitsEnd(s, i + 1) ELSE i

RECURSIVE findall(_, _)
findall(s, i) ==
    IF i > Len(s) THEN <<>>
    ELSE IF TokEndsWithTask(s[i])
         THEN LET j == SkipBlanks(s, i + 1)
                  h == IF j <= Len(s) /\ s[j] = "#" THEN j + 1 ELSE j
                  e == DigitsEnd(s, h)
              IN  IF e > h
                  THEN <<SubSeq(s, h, e - 1)>> \o findall(s, e)
                  ELSE findall(s, i + 1)
         ELSE findall(s, i + 1)

(***************************************************************************)
(* Task ids (lines 35, 41).                                                *)
(***************************************************************************)
RECURSIVE lstripHash(_)
lstripHash(s) == IF s # <<>> /\ Head(s) = "#" THEN lstripHash(Tail(s)) ELSE s

RECURSIVE rstripHash(_)
rstripHash(s) ==
    IF s # <<>> /\ s[Len(s)] = "#" THEN rstripHash(SubSeq(s, 1, Len(s) - 1)) ELSE s

\* f"#{task.id.strip('#')}" if task.id.startswith('#') else f"#{task.id}"
task_id_of(task) ==
    IF task.id # <<>> /\ Head(task.id) = "#"
    THEN <<"#">> \o rstripHash(lstripHash(task.id))
    ELSE <<"#">> \o task.id

\* nodes = {key: task for task in tasks}: first occurrence fixes the position,
\* the last task with the key is the value
RECURSIVE make_nodes(_, _, _)
make_nodes(d, ts, i) ==
    IF i > Len(ts) THEN d
    ELSE make_nodes(DictPut(d, task_id_of(ts[i]), ts[i]), ts, i + 1)

(***************************************************************************)
(* Edge inference (lines 36-69).  g = [edges, reverse_edges].              *)
(***************************************************************************)
\* mutant: the prerequisite is put on the reverse list only if it is not there yet
add_edge_reverse_once(g, prereq_id, task_id) ==
    [edges |-> DictPut(g.edges, prereq_id,
                       Append(DictGet(g.edges, prereq_id, <<>>), task_id)),
     reverse_edges |->
         IF prereq_id \in Range(DictGet(g.reverse_edges, task_id, <<>>)) THEN g.reverse_edges
         ELSE DictPut(g.reverse_edges, task_id,
                      Append(DictGet(g.reverse_edges, task_id, <<>>), prereq_id))]

\* edges[prereq_id].append(task_id); reverse_edges[task_id].append(prereq_id)
add_edge(g, prereq_id, task_id) ==
    [edges |-> DictPut(g.edges, prereq_id,
                       Append(DictGet(g.edges, prereq_id, <<>>), task_id)),
     reverse_edges |-> DictPut(g.reverse_edges, task_id,
                       Append(DictGet(g.reverse_edges, task_id, <<>>), prereq_id))]

\* mutant: line 54 without the membership test
explicit_guard_unchecked(nds, prereq_id, task_id) == TRUE

\* lines 53-56: the guard of an explicit reference
explicit_guard(nds, prereq_id, task_id) == DictHas(nds, prereq_id)

\* mutant: only the first match of a reference is taken
explicit_refs_first_only(g, nds, task_refs, i, task_id) ==
    IF i > Len(task_refs) \/ i > 1 THEN g
    ELSE LET prereq_id == <<"#">> \o task_refs[i]
         IN  IF explicit_guard(nds, prereq_id, task_id)
             THEN add_edge(g, prereq_id, task_id) ELSE g

\* lines 52-56
RECURSIVE explicit_refs(_, _, _, _, _)
explicit_refs(g, nds, task_refs, i, task_id) ==
    IF i > Len(task_refs) THEN g
    ELSE LET prereq_id == <<"#">> \o task_refs[i]
             g2 == IF explicit_guard(nds, prereq_id, task_id)
                   THEN add_edge(g, prereq_id, task_id) ELSE g
         IN  explicit_refs(g2, nds, task_refs, i + 1, task_id)

Anchor1 == <<"#", "1">>
Anchor4 == <<"#", "4">>
Keywords1 == {"testing", "pipeline", "completion"}
Keywords4 == {"aar", "automation", "tracking"}

\* lines 61, 67: the guard of an anchor reference
anchor_guard(nds, anchor, task_id) == DictHas(nds, anchor) /\ task_id # anchor

\* lines 45-69: one dependency reference
infer_dep(g, nds, dep, task_id) ==
    LET dep_clean == lower(strip(dep))
    IN  IF Contains(dep_clean, "task")
        THEN explicit_refs(g, nds, findall(dep_clean, 1), 1, task_id)
        ELSE IF \E kw \in Keywords1 : Contains(dep_clean, kw)
        THEN (IF anchor_guard(nds, Anchor1, task_id)
              THEN add_edge(g, Anchor1, task_id) ELSE g)
        ELSE IF \E kw \in Keywords4 : Contains(dep_clean, kw)
        THEN (IF anchor_guard(nds, Anchor4, task_id)
              THEN add_edge(g, Anchor4, task_id) ELSE g)
        ELSE g

\* line 44
RECURSIVE infer_deps(_, _, _, _, _)
infer_deps(g, nds, deps, i, task_id) ==
    IF i > Len(deps) THEN g
    ELSE infer_deps(infer_dep(g, nds, deps[i], task_id), nds, deps, i + 1, task_id)

\* line 40
RECURSIVE infer_tasks(_, _, _, _)
infer_tasks(g, nds, ts, i) ==
    IF i > Len(ts) THEN g
    ELSE infer_tasks(infer_deps(g, nds, ts[i].dependencies, 1, task_id_of(ts[i])),
                     nds, ts, i + 1)

build_graph(ts) ==
    infer_tasks([edges |-> <<>>, reverse_edges |-> <<>>], make_nodes(<<>>, ts, 1), ts, 1)

(***************************************************************************)
(* Cycle detection (lines 109-141).  st = [visited, rec_stack, cycles,     *)
(* ret]; ret is the value dfs returns, or "ValueError" when path.index     *)
(* raises.                                                                 *)
(***************************************************************************)
\* path.index(node)
index(path, node) == CHOOSE i \in 1..Len(path) : path[i] = node /\ \A j \in 1..(i - 1) : path[j] # node

\* mutant: line 121 reports the whole path instead of its suffix from cycle_start
record_cycle_whole_path(st, node, path) ==
    IF node \in Range(path)
    THEN [st EXCEPT !.cycles = Append(@, path \o <<node>>), !.ret = "True"]
    ELSE [st EXCEPT !.ret = "ValueError"]

\* lines 118-122: node is in rec_stack
record_cycle(st, node, path) ==
    IF node \in Range(path)
    THEN [st EXCEPT !.cycles = Append(@, SubSeq(path, index(path, node), Len(path)) \o <<node>>),
                    !.ret = "True"]
    ELSE [st EXCEPT !.ret = "ValueError"]

\* lines 134-135 on the way out of a node whose neighbours found no cycle
leave_node(st, node) == [st EXCEPT !.rec_stack = @ \ {node}, !.ret = "False"]

RECURSIVE dfs(_, _, _, _)
RECURSIVE dfs_neighbors(_, _, _, _, _)
\* mutant: the test of line 127 comes before the test of line 118
dfs_visited_first(st, E, node, path) ==
    IF node \in st.visited THEN [st EXCEPT !.ret = "False"]
    ELSE dfs_neighbors([st EXCEPT !.visited = @ \cup {node}, !.rec_stack = @ \cup {node}],
                       E, node, path, 1)

\* mutant: line 132 does not return, the loop goes on after a cycle was recorded
dfs_neighbors_keep_going(st, E, node, path, i) ==
    LET nbrs == DictGet(E, node, <<>>)
    IN  IF i > Len(nbrs) THEN leave_node(st, node)
        ELSE LET r == dfs(st, E, nbrs[i], Append(path, node))
             IN  IF r.ret = "ValueError" THEN r ELSE dfs_neighbors(r, E, node, path, i + 1)

\* lines 117-135
dfs(st, E, node, path) ==
    IF node \in st.rec_stack THEN record_cycle(st, node, path)
    ELSE IF node \in st.visited THEN [st EXCEPT !.ret = "False"]
    ELSE dfs_neighbors([st EXCEPT !.visited = @ \cup {node}, !.rec_stack = @ \cup {node}],
                       E, node, path, 1)

\* lines 130-135
dfs_neighbors(st, E, node, path, i) ==
    LET nbrs == DictGet(E, node, <<>>)
    IN  IF i > Len(nbrs) THEN leave_node(st, node)
        ELSE LET r == dfs(st, E, nbrs[i], Append(path, node))
             IN  IF r.ret = "False" THEN dfs_neighbors(r, E, node, path, i + 1) ELSE r

(***************************************************************************)
(* Critical path (lines 143-197).  Hours are hundredths of an hour.        *)
(***************************************************************************)
\* line 164, 187: the weight of an id that is not in nodes (1 hour)
DefaultWeight == 100

\* line 189: abs(...) < 0.1
Tolerance == 10

Abs(x) == IF x < 0 THEN -x ELSE x

weight(nds, n) == IF DictHas(nds, n) THEN DictGet(nds, n, <<>>).estimated_hours ELSE DefaultWeight

\* mutant: an id that occurs twice in a forward list is counted once
RECURSIVE count_neighbors_once(_, _, _)
count_neighbors_once(deg, nbrs, i) ==
    IF i > Len(nbrs) THEN deg
    ELSE count_neighbors_once(
             IF \E j \in 1..(i - 1) : nbrs[j] = nbrs[i] THEN deg
             ELSE DictPut(deg, nbrs[i], DictGet(deg, nbrs[i], 0) + 1),
             nbrs, i + 1)

\* lines 148-151
RECURSIVE count_neighbors(_, _, _)
count_neighbors(deg, nbrs, i) ==
    IF i > Len(nbrs) THEN deg
    ELSE count_neighbors(DictPut(deg, nbrs[i], DictGet(deg, nbrs[i], 0) + 1), nbrs, i + 1)

RECURSIVE compute_in_degree(_, _, _)
compute_in_degree(deg, E, i) ==
    IF i > Len(E) THEN deg
    ELSE compute_in_degree(count_neighbors(deg, E[i].v, 1), E, i + 1)

\* mutant: line 154 without the in-degree test
initial_queue_all(keys, deg, i) == keys

\* line 154
RECURSIVE initial_queue(_, _, _)
initial_queue(keys, deg, i) ==
    IF i > Len(keys) THEN <<>>
    ELSE (IF DictGet(deg, keys[i], 0) = 0 THEN <<keys[i]>> ELSE <<>>)
         \o initial_queue(keys, deg, i + 1)

\* line 170: the neighbour is enqueued
enqueue_guard(deg, neighbor) == DictGet(deg, neighbor, 0) = 0

\* mutant: line 166 without the comparison
relax_guard_always(current_dist, task_weight, neighbor_distance) == TRUE

\* line 166: the neighbour's distance is raised
relax_guard(current_dist, task_weight, neighbor_distance) ==
    current_dist + task_weight > neighbor_distance

\* lines 162-171.  w = [longest_path, in_degree, queue]
RECURSIVE relax_neighbors(_, _, _, _, _, _)
relax_neighbors(w, nds, cur, cur_dist, nbrs, i) ==
    IF i > Len(nbrs) THEN w
    ELSE LET neighbor == nbrs[i]
             neighbor_distance == DictGet(w.longest_path, neighbor, 0)
             task_weight == weight(nds, cur)
             lp == IF relax_guard(cur_dist, task_weight, neighbor_distance)
                   THEN DictPut(w.longest_path, neighbor, cur_dist + task_weight)
                   ELSE w.longest_path
             deg == DictPut(w.in_degree, neighbor, DictGet(w.in_degree, neighbor, 0) - 1)
             q == IF enqueue_guard(deg, neighbor) THEN Append(w.queue, neighbor) ELSE w.queue
         IN  relax_neighbors([longest_path |-> lp, in_degree |-> deg, queue |-> q],
                             nds, cur, cur_dist, nbrs, i + 1)

\* mutant: the last entry of maximal value instead of the first
max_node_last(lp) ==
    lp[CHOOSE i \in 1..Len(lp) :
           /\ \A j \in 1..Len(lp) : lp[j].v <= lp[i].v
           /\ \A j \in (i + 1)..Len(lp) : lp[j].v < lp[i].v]

\* line 176: max(longest_path.items(), key=...) is the first entry of maximal value
max_node(lp) ==
    lp[CHOOSE i \in 1..Len(lp) :
           /\ \A j \in 1..Len(lp) : lp[j].v <= lp[i].v
           /\ \A j \in 1..(i - 1) : lp[j].v < lp[i].v]

\* mutant: line 185 looks for the edge in the other direction
is_predecessor_reversed(nds, E, lp, node, cur, cur_dist) ==
    /\ node # cur
    /\ node \in Range(DictGet(E, cur, <<>>))
    /\ Abs(DictGet(lp, node, 0) + weight(nds, node) - cur_dist) < Tolerance

\* mutant: line 189 is lost, any predecessor is taken
is_predecessor_any_edge(nds, E, lp, node, cur, cur_dist) ==
    node # cur /\ cur \in Range(DictGet(E, node, <<>>))

\* mutant: line 185 is lost, any node whose distance fits is taken
is_predecessor_no_edge(nds, E, lp, node, cur, cur_dist) ==
    Abs(DictGet(lp, node, 0) + weight(nds, node) - cur_dist) < Tolerance

\* lines 185-189: node is a predecessor of cur that explains cur's distance
is_predecessor(nds, E, lp, node, cur, cur_dist) ==
    /\ node # cur
    /\ cur \in Range(DictGet(E, node, <<>>))
    /\ Abs(DictGet(lp, node, 0) + weight(nds, node) - cur_dist) < Tolerance

\* mutant: the last matching node of the loop of line 184 is taken
find_predecessor_last(nds, E, lp, cur, cur_dist) ==
    LET hits == {i \in 1..Len(nds) : is_predecessor(nds, E, lp, nds[i].k, cur, cur_dist)}
    IN  IF hits = {} THEN 0 ELSE CHOOSE i \in hits : \A j \in hits : i >= j

\* lines 184-193: position in nodes of the predecessor the for loop stops at, 0 if none
find_predecessor(nds, E, lp, cur, cur_dist) ==
    LET hits == {i \in 1..Len(nds) : is_predecessor(nds, E, lp, nds[i].k, cur, cur_dist)}
    IN  IF hits = {} THEN 0 ELSE CHOOSE i \in hits : \A j \in hits : i <= j

(***************************************************************************)
(* Readiness (lines 77-97).                                                *)
(***************************************************************************)
\* mutant: any() in place of all() at line 88
prereq_completed_any(nds, prereqs) ==
    \E i \in 1..Len(prereqs) :
        DictHas(nds, prereqs[i]) /\ DictGet(nds, prereqs[i], <<>>).status = "completed"

\* lines 88-91
prereq_completed(nds, prereqs) ==
    \A i \in 1..Len(prereqs) :
        DictHas(nds, prereqs[i]) => DictGet(nds, prereqs[i], <<>>).status = "completed"

\* mutant: the else of line 94 is lost, a blocked task is appended to ready_tasks too
classify_task_no_else(r, nds, R, task_id) ==
    LET task == DictGet(nds, task_id, <<>>)
        prereqs == DictGet(R, task_id, <<>>)
    IN  IF task.status = "completed" THEN r
        ELSE IF prereqs # <<>> /\ ~prereq_completed(nds, prereqs)
             THEN [r EXCEPT !.blocked_tasks = Append(@, task_id),
                            !.ready_tasks = Append(@, task_id)]
             ELSE [r EXCEPT !.ready_tasks = Append(@, task_id)]

\* mutant: the continue of lines 82-83 is lost, Completed tasks are classified too
classify_task_no_skip(r, nds, R, task_id) ==
    LET prereqs == DictGet(R, task_id, <<>>)
    IN  IF prereqs # <<>> /\ ~prereq_completed(nds, prereqs)
        THEN [r EXCEPT !.blocked_tasks = Append(@, task_id)]
        ELSE [r EXCEPT !.ready_tasks = Append(@, task_id)]

\* lines 82-97: one iteration of the loop over nodes.  r = [blocked_tasks, ready_tasks]
classify_task(r, nds, R, task_id) ==
    LET task == DictGet(nds, task_id, <<>>)
        prereqs == DictGet(R, task_id, <<>>)
    IN  IF task.status = "completed" THEN r
        ELSE IF prereqs # <<>>
             THEN (IF ~prereq_completed(nds, prereqs)
                   THEN [r EXCEPT !.blocked_tasks = Append(@, task_id)]
                   ELSE [r EXCEPT !.ready_tasks = Append(@, task_id)])
             ELSE [r EXCEPT !.ready_tasks = Append(@, task_id)]

\* line 81
RECURSIVE classify_tasks(_, _, _, _)
classify_tasks(r, nds, R, i) ==
    IF i > Len(nds) THEN r
    ELSE classify_tasks(classify_task(r, nds, R, nds[i].k), nds, R, i + 1)

(***************************************************************************)
(* get_analysis_summary (lines 199-222).  Percentages are kept in tenths   *)
(* of a percent, as round(..., 1) leaves them.                             *)
(***************************************************************************)
\* round(num / den * 100, 1) in tenths of a percent, den > 0
round1(num, den) ==
    IF num >= 0 THEN (2000 * num + den) \div (2 * den)
    ELSE -((2000 * (-num) + den) \div (2 * den))

\* mutant: the message does not name the task
blocking_issue_anonymous(task_id) == <<"Task", " ", "blocked by incomplete prerequisites">>

\* line 219: f"Task {task_id} blocked by incomplete prerequisites"
blocking_issue(task_id) ==
    <<"Task", " ">> \o task_id \o <<" ", "blocked by incomplete prerequisites">>

\* mutant: every ready task is recommended
next_recommended_all(ready) == ready

\* line 217: self.ready_tasks[:3]
next_recommended(ready) == SubSeq(ready, 1, IF Len(ready) < 3 THEN Len(ready) ELSE 3)

\* mutant: an empty task list counts as fully complete
get_analysis_summary_empty_complete(nds, cyc, cp, blocked, ready) ==
    LET total_tasks == Len(nds)
        completed == Cardinality({i \in 1..Len(nds) : nds[i].v.status = "completed"})
    IN  [total_tasks |-> total_tasks,
         completed_tasks |-> completed,
         blocked_tasks |-> Len(blocked),
         ready_tasks |-> Len(ready),
         cycles_detected |-> Len(cyc),
         critical_path_length |-> Len(cp),
         completion_percentage |-> IF total_tasks > 0 THEN round1(completed, total_tasks) ELSE 1000,
         efficiency_score |-> IF total_tasks > 0
                              THEN round1(Len(ready) - Len(blocked), total_tasks) ELSE 0,
         critical_path |-> cp,
         next_recommended_tasks |-> SubSeq(ready, 1, IF Len(ready) < 3 THEN Len(ready) ELSE 3),
         blocking_issues |-> [i \in 1..Len(blocked) |-> blocking_issue(blocked[i])]]

get_analysis_summary(nds, cyc, cp, blocked, ready) ==
    LET total_tasks == Len(nds)
        completed == Cardinality({i \in 1..Len(nds) : nds[i].v.status = "completed"})
    IN  [total_tasks |-> total_tasks,
         completed_tasks |-> completed,
         blocked_tasks |-> Len(blocked),
         ready_tasks |-> Len(ready),
         cycles_detected |-> Len(cyc),
         critical_path_length |-> Len(cp),
         completion_percentage |-> IF total_tasks > 0 THEN round1(completed, total_tasks) ELSE 0,
         efficiency_score |-> IF total_tasks > 0
                              THEN round1(Len(ready) - Len(blocked), total_tasks) ELSE 0,
         critical_path |-> cp,
         next_recommended_tasks |-> next_recommended(ready),
         blocking_issues |-> [i \in 1..Len(blocked) |-> blocking_issue(blocked[i])]]

(***************************************************************************)
(* Inputs: the task lists the analysis is run on.                          *)
(***************************************************************************)
Statuses == {"pending", "in_progress", "completed", "blocked"}

Ref(n) == <<"Task", " ", "#", n>>
ref(n) == <<"task", " ", n>>
And == <<" ", "and", " ">>

\* dependency lists that shape the graph: chains, forks, joins, cycles, self-references
GraphDeps ==
    { <<>>,
      <<Ref("1")>>,
      <<ref("2")>>,
      <<Ref("1"), Ref("3")>>,
      <<Ref("3") \o And \o ref("2")>>,
      <<Ref("3"), ref("1")>> }

ReadyDeps == { <<>>, <<Ref("1")>>, <<Ref("1") \o And \o ref("2")>> }

\* dependency lists that exercise the text rules
TextDeps ==
    { <<>>,
      <<Ref("9")>>,
      << <<"Testing", " ", "Pipeline">> >>,
      << <<" ", "AAR", " ", "Automation", " ">> >>,
      << <<"subtask", " ", "testing">> >>,
      << <<"Tasks", " ", "4">> >>,
      << <<"TASK", "#", "2", " ", "testing">> >>,
      <<Ref("1") \o <<" ", "or", " ">> \o ref("1")>>,
      <<Ref("1"), <<"after", " ">> \o ref("1")>> }

\* hundredths of an hour: 0, 0.05 h (inside the tolerance of line 189), 1 h
HourPool == {0, 5, 100}

PlainIds == << <<"#", "1">>, <<"#", "2">>, <<"#", "3">>, <<"#", "4">>, <<"#", "5">> >>
MixedIds == << <<"4">>, <<"#", "1">>, <<"2">>, <<"#", "#", "3", "#">>, <<"5">> >>

\* Task(id=..., status=..., estimated_hours=..., dependencies=...): the list fields
\* the analysis writes start empty (default_factory=list)
NewTask(id, status, hours, deps) ==
    [id |-> id, status |-> status, estimated_hours |-> hours, dependencies |-> deps,
     blocks |-> <<>>, complexity_indicators |-> <<>>, risk_factors |-> <<>>,
     success_patterns |-> <<>>]

\* a task list of n tasks: ids by position, the other fields chosen by f
TaskList(ids, n, f) == [i \in 1..n |-> NewTask(ids[i], f[i].s, f[i].h, f[i].d)]

\* the three families of inputs: graph shapes with weights, readiness with statuses,
\* reference texts with mixed id spellings
Families ==
    { [ids |-> PlainIds, stats |-> {"pending"}, hours |-> HourPool, deps |-> GraphDeps],
      [ids |-> PlainIds, stats |-> Statuses, hours |-> {100}, deps |-> ReadyDeps],
      [ids |-> MixedIds, stats |-> {"pending"}, hours |-> {100}, deps |-> TextDeps] }

\* the worked scenarios: a fork with weights 5 h, 3 h, 2 h, and a two-task cycle
Scenario1 ==
    { << NewTask(PlainIds[1], s1, 500, <<>>),
         NewTask(PlainIds[2], s2, 300, <<Ref("1")>>),
         NewTask(PlainIds[3], s3, 200, <<Ref("1")>>) >> :
      s1 \in Statuses \ {"completed"}, s2 \in Statuses \ {"completed"},
      s3 \in Statuses \ {"completed"} }

Scenario2 ==
    { << NewTask(PlainIds[1], "pending", h1, <<Ref("2")>>),
         NewTask(PlainIds[2], "pending", h2, <<Ref("1")>>) >> :
      h1 \in HourPool, h2 \in HourPool }

\* a backlog of five tasks, each open or Completed, each but the first alone or after #1
Backlog ==
    { [i \in 1..5 |-> NewTask(PlainIds[i], st[i], 100, dp[i])] :
      st \in [1..5 -> {"pending", "completed"}],
      dp \in { d \in [1..5 -> {<<>>, <<Ref("1")>>}] : d[1] = <<>> } }

\* three tasks where a task names the same prerequisite twice and another one once
Repeats ==
    { << NewTask(PlainIds[1], "pending", h1, <<>>),
         NewTask(PlainIds[2], "pending", h2, d2),
         NewTask(PlainIds[3], "pending", 100, d3) >> :
      h1 \in HourPool, h2 \in HourPool,
      d2 \in { <<>>, <<Ref("1")>>, <<Ref("1"), ref("1"), Ref("3")>> },
      d3 \in { <<Ref("1")>>, <<Ref("1"), ref("1"), ref("2")>> } }

Scenarios == Scenario1 \cup Scenario2 \cup Backlog \cup Repeats

(***************************************************************************)
(* State machine: one call of DependencyGraph.from_tasks followed by       *)
(* get_analysis_summary.                                                   *)
(***************************************************************************)
None == <<>>

\* the locals of a call of from_tasks at its entry
EntryState ==
    /\ pc = "from_tasks"
    /\ nodes = <<>>
    /\ edges = <<>>
    /\ reverse_edges = <<>>
    /\ visited = {}
    /\ rec_stack = {}
    /\ cycles = <<>>
    /\ root = 1
    /\ in_degree = <<>>
    /\ queue = <<>>
    /\ longest_path = <<>>
    /\ critical_path = <<>>
    /\ current = None
    /\ current_distance = 0
    /\ blocked_tasks = <<>>
    /\ ready_tasks = <<>>
    /\ summary = None
    /\ popped = <<>>

\* popped: the ids that line 159 has taken from the queue, in that order;
\* first: what an earlier call on the same list returned (which call, its graph, its
\* summary), None before any;
\* other: the frame of a second invocation that runs at the same time, None if there is none
Init ==
    /\ \/ \E fam \in Families : \E n \in 0..MaxTasks :
              \E f \in [1..n -> [s : fam.stats, h : fam.hours, d : fam.deps]] :
                  tasks = TaskList(fam.ids, n, f)
       \/ tasks \in Scenarios
    /\ EntryState
    /\ first = None
    /\ other = None

cycleVars == <<visited, rec_stack, cycles, root>>
pathVars == <<in_degree, queue, longest_path, critical_path, current, current_distance>>
readyVars == <<blocked_tasks, ready_tasks>>

\* lines 36, 37, 115: a name bound to a new empty container, whatever it held before
new_list_carried(prev) == prev

new_list(prev) == <<>>

\* lines 35-69, and the entry of _detect_cycles (lines 113-115)
BuildGraph ==
    /\ pc = "from_tasks"
    /\ LET g == build_graph(tasks)
       IN  /\ nodes' = make_nodes(<<>>, tasks, 1)
           /\ edges' = g.edges
           /\ reverse_edges' = g.reverse_edges
    /\ visited' = {}
    /\ rec_stack' = {}
    /\ cycles' = new_list(cycles)
    /\ root' = 1
    /\ pc' = "detect_cycles"
    /\ UNCHANGED <<tasks, pathVars, readyVars, summary>>
    /\ UNCHANGED <<first, other, popped>>

\* lines 137-139: one iteration of the loop over the keys of edges
DfsRoot ==
    /\ pc = "detect_cycles"
    /\ root <= Len(edges)
    /\ LET node == edges[root].k
           st == [visited |-> visited, rec_stack |-> rec_stack, cycles |-> cycles, ret |-> "False"]
           r == IF node \notin visited THEN dfs(st, edges, node, <<>>) ELSE st
       IN  /\ visited' = r.visited
           /\ rec_stack' = r.rec_stack
           /\ cycles' = r.cycles
           /\ pc' = IF r.ret = "ValueError" THEN "raised" ELSE "detect_cycles"
    /\ root' = root + 1
    /\ UNCHANGED <<tasks, nodes, edges, reverse_edges, pathVars, readyVars, summary>>
    /\ UNCHANGED <<first, other, popped>>

\* line 141, then lines 147-156
CyclesReturn ==
    /\ pc = "detect_cycles"
    /\ root > Len(edges)
    /\ LET deg == compute_in_degree(<<>>, edges, 1)
       IN  /\ in_degree' = deg
           /\ queue' = initial_queue(DictKeys(nodes), deg, 1)
    /\ longest_path' = <<>>
    /\ critical_path' = <<>>
    /\ pc' = "worklist"
    /\ UNCHANGED <<tasks, nodes, edges, reverse_edges, cycleVars, current, current_distance,
                   readyVars, summary>>
    /\ UNCHANGED <<first, other>>
    /\ popped' = <<>>

\* lines 158-171: one iteration of the while loop
WorklistStep ==
    /\ pc = "worklist"
    /\ queue # <<>>
    /\ LET cur == Head(queue)
           w == relax_neighbors([longest_path |-> longest_path, in_degree |-> in_degree,
                                 queue |-> Tail(queue)],
                                nodes, cur, DictGet(longest_path, cur, 0),
                                DictGet(edges, cur, <<>>), 1)
       IN  /\ longest_path' = w.longest_path
           /\ in_degree' = w.in_degree
           /\ queue' = w.queue
    /\ UNCHANGED <<tasks, pc, nodes, edges, reverse_edges, cycleVars, critical_path, current,
                   current_distance, readyVars, summary>>
    /\ UNCHANGED <<first, other>>
    /\ popped' = Append(popped, Head(queue))

\* lines 174-181: the loop has ended; pick the end of the path
SelectMax ==
    /\ pc = "worklist"
    /\ queue = <<>>
    /\ IF longest_path # <<>>
       THEN /\ critical_path' = <<max_node(longest_path).k>>
            /\ current' = max_node(longest_path).k
            /\ current_distance' = max_node(longest_path).v
            /\ pc' = "backtrack"
       ELSE /\ pc' = "readiness"
            /\ UNCHANGED <<critical_path, current, current_distance>>
    /\ UNCHANGED <<tasks, nodes, edges, reverse_edges, cycleVars, in_degree, queue, longest_path,
                   readyVars, summary>>
    /\ UNCHANGED <<first, other, popped>>

\* a reconstruction that has come back to an id never ends; the model follows it up to
\* this path length
PathCap == 2 * Len(nodes) + 1

\* lines 183-195: one iteration of the while loop
BacktrackStep ==
    /\ pc = "backtrack"
    /\ current_distance > 0
    /\ Len(critical_path) < PathCap
    /\ LET i == find_predecessor(nodes, edges, longest_path, current, current_distance)
       IN  IF i # 0
           THEN /\ critical_path' = <<nodes[i].k>> \o critical_path
                /\ current' = nodes[i].k
                /\ current_distance' = DictGet(longest_path, nodes[i].k, 0)
                /\ pc' = "backtrack"
           ELSE /\ pc' = "readiness"
                /\ UNCHANGED <<critical_path, current, current_distance>>
    /\ UNCHANGED <<tasks, nodes, edges, reverse_edges, cycleVars, in_degree, queue, longest_path,
                   readyVars, summary>>
    /\ UNCHANGED <<first, other, popped>>

\* line 183 is false: line 197
BacktrackEnd ==
    /\ pc = "backtrack"
    /\ current_distance <= 0
    /\ pc' = "readiness"
    /\ UNCHANGED <<tasks, nodes, edges, reverse_edges, cycleVars, pathVars, readyVars, summary>>
    /\ UNCHANGED <<first, other, popped>>

\* lines 77-107
Readiness ==
    /\ pc = "readiness"
    /\ LET r == classify_tasks([blocked_tasks |-> <<>>, ready_tasks |-> <<>>],
                                nodes, reverse_edges, 1)
       IN  /\ blocked_tasks' = r.blocked_tasks
           /\ ready_tasks' = r.ready_tasks
    /\ pc' = "built"
    /\ UNCHANGED <<tasks, nodes, edges, reverse_edges, cycleVars, pathVars, summary>>
    /\ UNCHANGED <<first, other, popped>>

\* lines 199-222
Summarize ==
    /\ pc = "built"
    /\ summary' = get_analysis_summary(nodes, cycles, critical_path, blocked_tasks, ready_tasks)
    /\ pc' = "done"
    /\ UNCHANGED <<tasks, nodes, edges, reverse_edges, cycleVars, pathVars, readyVars>>
    /\ UNCHANGED <<first, other, popped>>

Next ==
    \/ BuildGraph
    \/ DfsRoot
    \/ CyclesReturn
    \/ WorklistStep
    \/ SelectMax
    \/ BacktrackStep
    \/ BacktrackEnd
    \/ Readiness
    \/ Summarize

Spec == Init /\ [][Next]_vars

(***************************************************************************)
(* Repeated calls and enhance_task_analysis (lines 245-272).  The caller   *)
(* may call from_tasks a second time on the list it still holds, and       *)
(* enhance_task_analysis goes on from the summary to its loop over tasks.  *)
(***************************************************************************)
\* lines 99-107: the fields of the DependencyGraph that from_tasks returns
Graph ==
    [nodes |-> nodes, edges |-> edges, reverse_edges |-> reverse_edges, cycles |-> cycles,
     critical_path |-> critical_path, blocked_tasks |-> blocked_tasks,
     ready_tasks |-> ready_tasks]

\* mutant: a tag is appended only where the list does not hold it yet
enhance_task_once(task, E, cp, blocked, ready) ==
    LET task_id == task_id_of(task)
        add(l, tag) == IF tag \in Range(l) THEN l ELSE Append(l, tag)
    IN  [task EXCEPT
            !.blocks = DictGet(E, task_id, <<>>),
            !.complexity_indicators =
                IF task_id \in Range(cp) THEN add(@, "critical_path") ELSE @,
            !.risk_factors =
                IF task_id \in Range(blocked) THEN add(@, "blocked_by_dependencies") ELSE @,
            !.success_patterns =
                IF task_id \in Range(ready) THEN add(@, "ready_for_execution") ELSE @]

\* lines 256-268: the body of the loop over tasks
enhance_task(task, E, cp, blocked, ready) ==
    LET task_id == task_id_of(task)
    IN  [task EXCEPT
            !.blocks = DictGet(E, task_id, <<>>),
            !.complexity_indicators =
                IF task_id \in Range(cp) THEN Append(@, "critical_path") ELSE @,
            !.risk_factors =
                IF task_id \in Range(blocked) THEN Append(@, "blocked_by_dependencies") ELSE @,
            !.success_patterns =
                IF task_id \in Range(ready) THEN Append(@, "ready_for_execution") ELSE @]

\* lines 254-272: the objects in the list are written in place, and nodes holds the
\* same objects
Enhance ==
    /\ pc = "done"
    /\ tasks' = [i \in 1..Len(tasks) |->
                    enhance_task(tasks[i], edges, critical_path, blocked_tasks, ready_tasks)]
    /\ nodes' = make_nodes(<<>>, tasks', 1)
    /\ pc' = "enhanced"
    /\ UNCHANGED <<edges, reverse_edges, cycleVars, pathVars, readyVars, summary, first, other,
                   popped>>

\* a second call of from_tasks on the same list: the graph of the first call stays
\* with the caller; the names of the new call are bound by the statements it runs
Again ==
    /\ pc = "done"
    /\ first = None
    /\ first' = [call |-> "from_tasks", graph |-> Graph, summary |-> summary]
    /\ pc' = "from_tasks"
    /\ UNCHANGED <<tasks, nodes, edges, reverse_edges, cycleVars, pathVars, readyVars, summary,
                   other, popped>>

\* a second call of enhance_task_analysis on the same task objects: what the first call
\* returned stays with the caller, and line 249 calls from_tasks again
EnhanceAgain ==
    /\ pc = "enhanced"
    /\ first = None
    /\ first' = [call |-> "enhance_task_analysis", graph |-> Graph, summary |-> summary]
    /\ pc' = "from_tasks"
    /\ UNCHANGED <<tasks, nodes, edges, reverse_edges, cycleVars, pathVars, readyVars, summary,
                   other, popped>>

\* inputs for the call sequences: every family with weights of 1 h
CoreFamilies == { [fam EXCEPT !.hours = {100}] : fam \in Families }

InitCore ==
    /\ \/ \E fam \in CoreFamilies : \E n \in 0..MaxTasks :
              \E f \in [1..n -> [s : fam.stats, h : fam.hours, d : fam.deps]] :
                  tasks = TaskList(fam.ids, n, f)
       \/ tasks \in Scenarios
    /\ EntryState
    /\ first = None
    /\ other = None

NextCore ==
    \/ Next
    \/ Again
    \/ Enhance
    \/ EnhanceAgain

SpecCore == InitCore /\ [][NextCore]_vars

(***************************************************************************)
(* from_tasks as one function of the task list (lines 31-107): the result  *)
(* of a call that runs alone.  outcome is "returned", "raised" (the        *)
(* ValueError of line 125) or "endless" (the loop of line 183 has come     *)
(* back to an id).                                                         *)
(***************************************************************************)
\* lines 137-141
RECURSIVE detect_roots(_, _, _)
detect_roots(st, E, i) ==
    IF i > Len(E) \/ st.ret = "ValueError" THEN st
    ELSE LET node == E[i].k
             s0 == [st EXCEPT !.ret = "False"]
         IN  detect_roots(IF node \notin s0.visited THEN dfs(s0, E, node, <<>>) ELSE s0,
                          E, i + 1)

\* lines 109-141
detect_cycles(E) ==
    detect_roots([visited |-> {}, rec_stack |-> {}, cycles |-> <<>>, ret |-> "False"], E, 1)

\* lines 158-171
RECURSIVE run_worklist(_, _, _)
run_worklist(w, nds, E) ==
    IF w.queue = <<>> THEN w
    ELSE LET cur == Head(w.queue)
         IN  run_worklist(relax_neighbors([w EXCEPT !.queue = Tail(@)], nds, cur,
                                          DictGet(w.longest_path, cur, 0),
                                          DictGet(E, cur, <<>>), 1),
                          nds, E)

\* lines 183-195
RECURSIVE backtrack(_, _, _, _, _, _)
backtrack(nds, E, lp, path, cur, cur_dist) ==
    IF cur_dist <= 0 THEN [path |-> path, ended |-> TRUE]
    ELSE IF Len(path) >= 2 * Len(nds) + 1 THEN [path |-> path, ended |-> FALSE]
    ELSE LET i == find_predecessor(nds, E, lp, cur, cur_dist)
         IN  IF i = 0 THEN [path |-> path, ended |-> TRUE]
             ELSE backtrack(nds, E, lp, <<nds[i].k>> \o path, nds[i].k,
                            DictGet(lp, nds[i].k, 0))

\* lines 143-197
find_critical_path(nds, E) ==
    LET deg == compute_in_degree(<<>>, E, 1)
        w == run_worklist([longest_path |-> <<>>, in_degree |-> deg,
                           queue |-> initial_queue(DictKeys(nds), deg, 1)], nds, E)
    IN  IF w.longest_path = <<>> THEN [path |-> <<>>, ended |-> TRUE]
        ELSE backtrack(nds, E, w.longest_path, <<max_node(w.longest_path).k>>,
                       max_node(w.longest_path).k, max_node(w.longest_path).v)

\* lines 31-107
from_tasks(ts) ==
    LET nds == make_nodes(<<>>, ts, 1)
        g == build_graph(ts)
        c == detect_cycles(g.edges)
        cp == find_critical_path(nds, g.edges)
        r == classify_tasks([blocked_tasks |-> <<>>, ready_tasks |-> <<>>],
                            nds, g.reverse_edges, 1)
    IN  IF c.ret = "ValueError" THEN [outcome |-> "raised"]
        ELSE IF ~cp.ended THEN [outcome |-> "endless"]
        ELSE [outcome |-> "returned",
              graph |-> [nodes |-> nds, edges |-> g.edges, reverse_edges |-> g.reverse_edges,
                         cycles |-> c.cycles, critical_path |-> cp.path,
                         blocked_tasks |-> r.blocked_tasks, ready_tasks |-> r.ready_tasks]]

(***************************************************************************)
(* Two invocations at the same time (lines 225-230: each call of           *)
(* analyze_dependencies is a call of from_tasks with its own locals).  The *)
(* variables hold the frame of the invocation that is running, other the   *)
(* frame of the one that waits; Switch hands the processor over.           *)
(***************************************************************************)
Frame ==
    [tasks |-> tasks, pc |-> pc, nodes |-> nodes, edges |-> edges,
     reverse_edges |-> reverse_edges, visited |-> visited, rec_stack |-> rec_stack,
     cycles |-> cycles, root |-> root, in_degree |-> in_degree, queue |-> queue,
     longest_path |-> longest_path, critical_path |-> critical_path, current |-> current,
     current_distance |-> current_distance, blocked_tasks |-> blocked_tasks,
     ready_tasks |-> ready_tasks, summary |-> summary, popped |-> popped]

\* the frame of a call of from_tasks(ts) at its entry
NewFrame(ts) ==
    [tasks |-> ts, pc |-> "from_tasks", nodes |-> <<>>, edges |-> <<>>,
     reverse_edges |-> <<>>, visited |-> {}, rec_stack |-> {},
     cycles |-> <<>>, root |-> 1, in_degree |-> <<>>, queue |-> <<>>,
     longest_path |-> <<>>, critical_path |-> <<>>, current |-> None,
     current_distance |-> 0, blocked_tasks |-> <<>>, ready_tasks |-> <<>>,
     summary |-> None, popped |-> <<>>]

\* mutant: the visited set of line 113 is one set for all invocations
own_locals_shared_visited(fr, peer) == [fr EXCEPT !.visited = peer.visited]

\* lines 35-37, 113-115, 145-156, 78-79: every name from_tasks works on is a local of
\* the call, so an invocation that resumes finds its frame as it left it
own_locals(fr, peer) == fr

Switch ==
    /\ other # None
    /\ other' = Frame
    /\ LET fr == own_locals(other, Frame)
       IN  /\ tasks' = fr.tasks
           /\ pc' = fr.pc
           /\ nodes' = fr.nodes
           /\ edges' = fr.edges
           /\ reverse_edges' = fr.reverse_edges
           /\ visited' = fr.visited
           /\ rec_stack' = fr.rec_stack
           /\ cycles' = fr.cycles
           /\ root' = fr.root
           /\ in_degree' = fr.in_degree
           /\ queue' = fr.queue
           /\ longest_path' = fr.longest_path
           /\ critical_path' = fr.critical_path
           /\ current' = fr.current
           /\ current_distance' = fr.current_distance
           /\ blocked_tasks' = fr.blocked_tasks
           /\ ready_tasks' = fr.ready_tasks
           /\ summary' = fr.summary
           /\ popped' = fr.popped
    /\ UNCHANGED first

\* inputs for two invocations: chains, self-references and cycles over the first ids
ConcDeps == { <<>>, <<Ref("1")>>, <<ref("2")>> }

ConcFamily == [ids |-> PlainIds, stats |-> {"pending"}, hours |-> {100}, deps |-> ConcDeps]

ConcFields == [s : ConcFamily.stats, h : ConcFamily.hours, d : ConcFamily.deps]

\* two task lists of the same length, each invocation with its own
InitConc ==
    /\ \E n \in 0..MaxTasks : \E f \in [1..n -> ConcFields] : \E g \in [1..n -> ConcFields] :
           /\ tasks = TaskList(ConcFamily.ids, n, f)
           /\ other = NewFrame(TaskList(ConcFamily.ids, n, g))
    /\ EntryState
    /\ first = None

NextConc ==
    \/ Next
    \/ Switch

SpecConc == InitConc /\ [][NextConc]_vars

(***************************************************************************)
(* Graph notions used to state the properties.                             *)
(***************************************************************************)
\* a -> b is an edge of the forward adjacency E
IsEdge(E, a, b) == b \in Range(DictGet(E, a, <<>>))

EndPoints(E) == KeySet(E) \cup UNION {Range(E[i].v) : i \in 1..Len(E)}

Successors(E, S) == {b \in EndPoints(E) : \E a \in S : IsEdge(E, a, b)}

RECURSIVE Closure(_, _)
Closure(E, S) ==
    LET T == S \cup Successors(E, S) IN IF T = S THEN S ELSE Closure(E, T)

\* n lies on a directed cycle of E
OnCycle(E, n) == n \in Closure(E, Successors(E, {n}))

NoDuplicates(s) == \A i, j \in 1..Len(s) : i # j => s[i] # s[j]

Returned == pc \in {"built", "done"}

\* the ids a task's references name explicitly, known or not
ReferencedIds(task) ==
    UNION { {<<"#">> \o r : r \in Range(findall(lower(strip(task.dependencies[j])), 1))} :
            j \in 1..Len(task.dependencies) }

(***************************************************************************)
(* C1: from_tasks completes without raising for every task list, cyclic    *)
(* graphs included: no call ends in an exception.                          *)
(***************************************************************************)
C1_NeverRaises == pc # "raised"

(***************************************************************************)
(* C2: _find_critical_path terminates.  Each iteration of the              *)
(* reconstruction loop is determined by `current` alone (current_distance  *)
(* is longest_path.get(current, 0) throughout), so the loop ends exactly   *)
(* when it never comes back to an id it has already put on the path.       *)
(***************************************************************************)
C2_ReconstructionTerminates == pc = "backtrack" => NoDuplicates(critical_path)

(***************************************************************************)
(* C3: after the worklist phase no node on a directed cycle of the forward *)
(* graph has an entry in the longest-path distance map.                    *)
(***************************************************************************)
C3_CyclicNodesExcluded ==
    (pc \in {"backtrack", "readiness"}) =>
        \A i \in 1..Len(longest_path) : ~OnCycle(edges, longest_path[i].k)

(***************************************************************************)
(* C4: the graph has no self-edge: no id occurs in its own forward list or *)
(* its own reverse list.                                                   *)
(***************************************************************************)
C4_NoSelfEdge ==
    /\ \A i \in 1..Len(edges) : edges[i].k \notin Range(edges[i].v)
    /\ \A i \in 1..Len(reverse_edges) : reverse_edges[i].k \notin Range(reverse_edges[i].v)

(***************************************************************************)
(* C5: the graph has no duplicate edge: each id occurs at most once in any *)
(* forward list and at most once in any reverse list.                      *)
(***************************************************************************)
C5_NoDuplicateEdge ==
    /\ \A i \in 1..Len(edges) : NoDuplicates(edges[i].v)
    /\ \A i \in 1..Len(reverse_edges) : NoDuplicates(reverse_edges[i].v)

(***************************************************************************)
(* C6: every id that is a key or a list element of the forward or reverse  *)
(* adjacency is a key of nodes; a reference to a task number that is not   *)
(* in the task list produces no edge.                                      *)
(***************************************************************************)
C6_EdgesWithinNodes ==
    /\ EndPoints(edges) \subseteq KeySet(nodes)
    /\ EndPoints(reverse_edges) \subseteq KeySet(nodes)
    /\ pc # "from_tasks" =>
           \A t \in 1..Len(tasks) : \A u \in ReferencedIds(tasks[t]) :
               u \notin KeySet(nodes) =>
                   u \notin EndPoints(edges) \cup EndPoints(reverse_edges)

\* a reference to an unknown task number was dropped while other edges were built
C6_Witness ==
    /\ pc = "detect_cycles"
    /\ edges # <<>>
    /\ \E t \in 1..Len(tasks) : \E u \in ReferencedIds(tasks[t]) : u \notin KeySet(nodes)

(***************************************************************************)
(* C7: every reported cycle is a sequence n0, ..., nk with k >= 1 and      *)
(* nk = n0 whose consecutive pairs are edges of the forward adjacency.     *)
(***************************************************************************)
IsClosedWalk(E, c) ==
    /\ Len(c) >= 2
    /\ c[Len(c)] = c[1]
    /\ \A i \in 1..(Len(c) - 1) : IsEdge(E, c[i], c[i + 1])

C7_CyclesAreClosedWalks == \A i \in 1..Len(cycles) : IsClosedWalk(edges, cycles[i])

\* a cycle of two or more distinct ids was reported below a root that is not on it
C7_Witness ==
    /\ pc = "done"
    /\ \E i \in 1..Len(cycles) : Len(cycles[i]) >= 3 /\ edges[1].k \notin Range(cycles[i])

(***************************************************************************)
(* C8: a task that is not Completed is Ready iff every entry of its        *)
(* reverse list is Completed (none is needed), and Blocked otherwise,      *)
(* whichever of Pending, InProgress, Blocked its own status is.            *)
(***************************************************************************)
PrereqsDone(k) ==
    \A p \in Range(DictGet(reverse_edges, k, <<>>)) :
        DictGet(nodes, p, [status |-> "unknown"]).status = "completed"

C8_ReadyIffPrereqsCompleted ==
    Returned =>
        \A i \in 1..Len(nodes) :
            nodes[i].v.status # "completed" =>
                /\ nodes[i].k \in Range(ready_tasks) <=> PrereqsDone(nodes[i].k)
                /\ nodes[i].k \in Range(blocked_tasks) <=> ~PrereqsDone(nodes[i].k)

\* a task whose own status is Blocked is Ready because its prerequisite is Completed,
\* next to an InProgress task that is Blocked by a prerequisite
C8_Witness ==
    /\ pc = "done"
    /\ \E i \in 1..Len(nodes) :
           /\ nodes[i].v.status = "blocked"
           /\ DictGet(reverse_edges, nodes[i].k, <<>>) # <<>>
           /\ nodes[i].k \in Range(ready_tasks)
    /\ \E i \in 1..Len(nodes) :
           /\ nodes[i].v.status = "in_progress"
           /\ nodes[i].k \in Range(blocked_tasks)

(***************************************************************************)
(* C9: the blocked and ready lists have no id in common.                   *)
(***************************************************************************)
C9_BlockedReadyDisjoint == Range(blocked_tasks) \cap Range(ready_tasks) = {}

C9_Witness == pc = "built" /\ blocked_tasks # <<>> /\ ready_tasks # <<>>

(***************************************************************************)
(* C10: blocked and ready together hold exactly the ids whose task is not  *)
(* Completed, each once, so completed + blocked + ready = total in the     *)
(* summary.                                                                *)
(***************************************************************************)
C10_ReadinessPartition ==
    /\ Returned =>
           /\ Range(blocked_tasks) \cup Range(ready_tasks)
                  = {nodes[i].k : i \in {j \in 1..Len(nodes) : nodes[j].v.status # "completed"}}
           /\ NoDuplicates(blocked_tasks \o ready_tasks)
    /\ pc = "done" =>
           summary.completed_tasks + summary.blocked_tasks + summary.ready_tasks
               = summary.total_tasks

\* a summary over Completed, blocked and ready tasks together
C10_Witness ==
    /\ pc = "done"
    /\ summary.completed_tasks > 0
    /\ summary.blocked_tasks > 0
    /\ summary.ready_tasks > 0

(***************************************************************************)
(* C11: on an acyclic graph the sum of estimated_hours over all ids of the *)
(* returned critical path equals the maximum value of the distance map.    *)
(***************************************************************************)
Acyclic == \A i \in 1..Len(nodes) : ~OnCycle(edges, nodes[i].k)

PathComputed == pc \in {"readiness", "built", "done"}

RECURSIVE SumWeights(_, _)
SumWeights(nds, path) ==
    IF path = <<>> THEN 0 ELSE weight(nds, Head(path)) + SumWeights(nds, Tail(path))

MaxDistance == max_node(longest_path).v

AllButLast(path) == SubSeq(path, 1, Len(path) - 1)

C12_PathHasNoRepeats ==
    Acyclic =>
        /\ NoDuplicates(critical_path)
        /\ Len(critical_path) <= Len(tasks)

\* an acyclic graph whose path runs through every task
C12_Witness ==
    /\ pc = "done"
    /\ Acyclic
    /\ Len(tasks) = MaxTasks
    /\ Len(critical_path) = Len(tasks)

(***************************************************************************)
(* C13: scenario 1.  #1 (5 h), #2 (3 h, "Task #1"), #3 (2 h, "Task #1"),   *)
(* none Completed: the edges are exactly #1->#2 and #1->#3, no cycle is    *)
(* reported, ready = [#1], blocked = [#2, #3], and the critical path is    *)
(* #1,#2 or #1,#3 with the weights of its ids summing to 8 h.              *)
(***************************************************************************)
Id1 == <<"#", "1">>
Id2 == <<"#", "2">>
Id3 == <<"#", "3">>

C13_Scenario1 ==
    (tasks \in Scenario1 /\ pc = "done") =>
        /\ edges = << [k |-> Id1, v |-> <<Id2, Id3>>] >>
        /\ reverse_edges = << [k |-> Id2, v |-> <<Id1>>], [k |-> Id3, v |-> <<Id1>>] >>
        /\ cycles = <<>>
        /\ ready_tasks = <<Id1>>
        /\ blocked_tasks = <<Id2, Id3>>
        /\ critical_path \in { <<Id1, Id2>>, <<Id1, Id3>> }
        /\ SumWeights(nodes, critical_path) = 800

C13_Witness == tasks \in Scenario1 /\ pc = "done" /\ summary.critical_path_length = 2

(***************************************************************************)
(* C14: scenario 2.  #1 ("Task #2"), #2 ("Task #1"): exactly one cycle is  *)
(* reported and it holds both ids, neither id is in the distance map, and  *)
(* the critical path holds neither id.                                     *)
(***************************************************************************)
C14_Scenario2 ==
    (tasks \in Scenario2 /\ PathComputed) =>
        /\ Len(cycles) = 1
        /\ {Id1, Id2} \subseteq Range(cycles[1])
        /\ {Id1, Id2} \cap KeySet(longest_path) = {}
        /\ {Id1, Id2} \cap Range(critical_path) = {}

C14_Witness ==
    /\ tasks \in Scenario2
    /\ pc = "done"
    /\ summary.cycles_detected = 1
    /\ \A i \in 1..Len(tasks) : tasks[i].estimated_hours > 0

(***************************************************************************)
(* C15: for the empty task list nothing is raised and the summary has      *)
(* every count, both percentages and the path length 0, and an empty       *)
(* critical path, next-recommended list and blocking-issue list.           *)
(***************************************************************************)
EmptySummary ==
    [total_tasks |-> 0, completed_tasks |-> 0, blocked_tasks |-> 0, ready_tasks |-> 0,
     cycles_detected |-> 0, critical_path_length |-> 0, completion_percentage |-> 0,
     efficiency_score |-> 0, critical_path |-> <<>>, next_recommended_tasks |-> <<>>,
     blocking_issues |-> <<>>]

C15_EmptyTaskList ==
    tasks = <<>> =>
        /\ pc # "raised"
        /\ pc = "done" => summary = EmptySummary

C15_Witness == tasks = <<>> /\ pc = "done" /\ summary.total_tasks = 0

(***************************************************************************)
(* C16: a second call of from_tasks on the same task list returns a graph  *)
(* equal to the first in nodes, forward and reverse adjacency with their   *)
(* list order, cycles, critical path, blocked and ready lists.             *)
(***************************************************************************)
C16_SecondCallIdentical ==
    (first # None /\ first.call = "from_tasks" /\ Returned) => Graph = first.graph

C16_Witness ==
    /\ first # None
    /\ first.call = "from_tasks"
    /\ pc = "done"
    /\ cycles # <<>>
    /\ Len(edges) >= 2
    /\ blocked_tasks # <<>>

(***************************************************************************)
(* C17: no step of from_tasks, get_analysis_summary or                     *)
(* enhance_task_analysis changes a field of a task record of the list it   *)
(* is given.                                                               *)
(***************************************************************************)
C17_TasksNeverWritten == [][tasks' = tasks]_vars

(***************************************************************************)
(* Numeric references, stated on the text itself: "task" at the end of     *)
(* token i, then blanks, an optional "#", and the digits h..e-1.           *)
(***************************************************************************)
IsNumericRef(s, i, h, e) ==
    /\ i <= Len(s)
    /\ TokEndsWithTask(s[i])
    /\ i < h
    /\ h < e
    /\ \A k \in h..(e - 1) : s[k] \in Digits
    /\ e <= Len(s) => s[e] \notin Digits
    /\ \A k \in (i + 1)..(h - 1) : s[k] \in Blanks \/ (k = h - 1 /\ s[k] = "#")

\* the ids "#N" that the reference dep names as "task #N" or "task N"
NamedIds(dep) ==
    LET s == lower(strip(dep))
        starts == {i \in 1..Len(s) : TokEndsWithTask(s[i])}
        spans(i) == {u \in ((i + 1)..Len(s)) \X ((i + 2)..(Len(s) + 1)) :
                        IsNumericRef(s, i, u[1], u[2])}
    IN  UNION { { <<"#">> \o SubSeq(s, u[1], u[2] - 1) : u \in spans(i) } : i \in starts }

\* the reference gives at least one explicit edge
ProducesRuleA(dep) == NamedIds(dep) \cap KeySet(nodes) # {}

Anchors == { [id |-> Anchor1, kws |-> Keywords1], [id |-> Anchor4, kws |-> Keywords4] }

HasKeyword(dep, a) == \E kw \in a.kws : Contains(lower(strip(dep)), kw)

(***************************************************************************)
(* C18: a reference of task T that gives no explicit edge, and whose text  *)
(* holds a keyword of an anchor that exists and is not T, gives the edge   *)
(* anchor -> T, also when the text holds the word "task"; and an edge      *)
(* anchor -> T comes only from a reference that names the anchor or from   *)
(* a keyword reference that gave no explicit edge.                         *)
(***************************************************************************)
C18_AnchorFallback ==
    Returned =>
        \A i \in 1..Len(tasks) : \A a \in Anchors :
            LET T == task_id_of(tasks[i])
                deps == tasks[i].dependencies
            IN  /\ \A j \in 1..Len(deps) :
                       ( /\ ~ProducesRuleA(deps[j])
                         /\ HasKeyword(deps[j], a)
                         /\ a.id \in KeySet(nodes)
                         /\ a.id # T ) => IsEdge(edges, a.id, T)
                /\ IsEdge(edges, a.id, T) =>
                       \E j \in 1..Len(deps) :
                           \/ a.id \in NamedIds(deps[j])
                           \/ ~ProducesRuleA(deps[j]) /\ HasKeyword(deps[j], a)

(***************************************************************************)
(* C19: for every reference of a task T and every numeric reference        *)
(* "task #N" or "task N" in it whose id #N is a known node, #N -> T is in  *)
(* the forward adjacency and #N is in T's reverse list; a reference with   *)
(* several numeric references gives an edge for each known id it names.    *)
(***************************************************************************)
C19_ExplicitEdges ==
    Returned =>
        \A i \in 1..Len(tasks) : \A j \in 1..Len(tasks[i].dependencies) :
            \A N \in NamedIds(tasks[i].dependencies[j]) \cap KeySet(nodes) :
                /\ IsEdge(edges, N, task_id_of(tasks[i]))
                /\ N \in Range(DictGet(reverse_edges, task_id_of(tasks[i]), <<>>))

C19_Witness ==
    /\ pc = "done"
    /\ \E i \in 1..Len(tasks) : \E j \in 1..Len(tasks[i].dependencies) :
           /\ Cardinality(NamedIds(tasks[i].dependencies[j]) \cap KeySet(nodes)) = 2
           /\ \A N \in NamedIds(tasks[i].dependencies[j]) : IsEdge(edges, N, task_id_of(tasks[i]))

(***************************************************************************)
(* C20: of two invocations whose steps are interleaved in any order, each  *)
(* on its own task list, each ends as the same call ends when it runs      *)
(* alone: it raises exactly when that one raises, and it returns the same  *)
(* graph and the same summary.                                             *)
(***************************************************************************)
GraphOf(fr) ==
    [nodes |-> fr.nodes, edges |-> fr.edges, reverse_edges |-> fr.reverse_edges,
     cycles |-> fr.cycles, critical_path |-> fr.critical_path,
     blocked_tasks |-> fr.blocked_tasks, ready_tasks |-> fr.ready_tasks]

AsAlone(fr) ==
    (fr.pc \in {"raised", "built", "done"}) =>
        LET alone == from_tasks(fr.tasks)
        IN  /\ fr.pc = "raised" => alone.outcome = "raised"
            /\ fr.pc \in {"built", "done"} =>
                   alone.outcome = "returned" /\ GraphOf(fr) = alone.graph
            /\ fr.pc = "done" =>
                   fr.summary = get_analysis_summary(alone.graph.nodes, alone.graph.cycles,
                                    alone.graph.critical_path, alone.graph.blocked_tasks,
                                    alone.graph.ready_tasks)

C20_InterleavedAsAlone == AsAlone(Frame) /\ (other # None => AsAlone(other))

C20_Witness ==
    /\ other # None
    /\ pc = "done"
    /\ other.pc = "done"
    /\ tasks # other.tasks
    /\ cycles # <<>>
    /\ other.cycles = <<>>
    /\ Len(other.critical_path) = MaxTasks

(***************************************************************************)
(* C21: in every summary next_recommended_tasks is the prefix of the ready *)
(* list of length min(3, number of ready tasks), and the ready list is in  *)
(* the order of the tasks in the input list.                               *)
(***************************************************************************)
\* the position in the input list of the task with id n
Position(n) == CHOOSE i \in 1..Len(tasks) : task_id_of(tasks[i]) = n

Min(a, b) == IF a < b THEN a ELSE b

C21_NextRecommended ==
    pc = "done" =>
        /\ Len(summary.next_recommended_tasks) = Min(3, Len(ready_tasks))
        /\ \A i \in 1..Len(summary.next_recommended_tasks) :
               summary.next_recommended_tasks[i] = ready_tasks[i]
        /\ \A i, j \in 1..Len(ready_tasks) :
               i < j => Position(ready_tasks[i]) < Position(ready_tasks[j])

C21_Witness ==
    /\ pc = "done"
    /\ Len(ready_tasks) > 3
    /\ Len(summary.next_recommended_tasks) = 3
    /\ Len(blocked_tasks) > 0

(***************************************************************************)
(* C22: in every summary blocking_issues has one message per entry of the  *)
(* blocked list, in the same order, each naming that blocked id; its       *)
(* length is the reported blocked_tasks count.                             *)
(***************************************************************************)
\* the token sequence a occurs in s
IsInfix(a, s) == \E k \in 0..(Len(s) - Len(a)) : SubSeq(s, k + 1, k + Len(a)) = a

C22_BlockingIssues ==
    pc = "done" =>
        /\ Len(summary.blocking_issues) = Len(blocked_tasks)
        /\ Len(summary.blocking_issues) = summary.blocked_tasks
        /\ \A i \in 1..Len(blocked_tasks) : IsInfix(blocked_tasks[i], summary.blocking_issues[i])

C22_Witness ==
    /\ pc = "done"
    /\ Len(blocked_tasks) >= 2
    /\ summary.blocking_issues[2] # summary.blocking_issues[1]

(***************************************************************************)
(* C23: in the reconstruction, among the predecessors p of a path node     *)
(* with distance[p] + weight(p) = distance[node] within the tolerance, the *)
(* one put before it on the path is the first in the order of the input    *)
(* task list.                                                              *)
(***************************************************************************)
\* the predecessors of n that pass the test of line 189
Candidates(n) ==
    { p \in KeySet(nodes) :
        /\ p # n
        /\ IsEdge(edges, p, n)
        /\ Abs(DictGet(longest_path, p, 0) + weight(nodes, p) - DictGet(longest_path, n, 0))
               < Tolerance }

C23_FirstPredecessorInInputOrder ==
    (pc \in {"backtrack", "readiness", "built", "done"}) =>
        \A k \in 2..Len(critical_path) :
            /\ critical_path[k - 1] \in Candidates(critical_path[k])
            /\ \A q \in Candidates(critical_path[k]) :
                   Position(critical_path[k - 1]) <= Position(q)

C23_Witness ==
    /\ pc = "done"
    /\ \E k \in 2..Len(critical_path) :
           /\ Cardinality(Candidates(critical_path[k])) >= 2
           /\ \A q \in Candidates(critical_path[k]) :
                  Position(critical_path[k - 1]) <= Position(q)

(***************************************************************************)
(* C24: in the worklist phase an id is put on the queue at most once, only *)
(* when its remaining in-degree is zero, and is taken from it only after   *)
(* every one of its predecessors has been taken, also when a forward list  *)
(* holds the same id more than once.                                       *)
(***************************************************************************)
\* p comes before n in the sequence s
Before(s, p, n) == \E i, j \in 1..Len(s) : i < j /\ s[i] = p /\ s[j] = n

C24_EnqueuedOnceAfterPredecessors ==
    pc = "worklist" =>
        /\ NoDuplicates(popped \o queue)
        /\ \A i \in 1..Len(queue) : DictGet(in_degree, queue[i], 0) = 0
        /\ \A j \in 1..Len(popped) : \A p \in KeySet(edges) :
               IsEdge(edges, p, popped[j]) => Before(popped, p, popped[j])

C24_Witness ==
    /\ pc = "done"
    /\ \E j \in 1..Len(popped) :
           /\ ~NoDuplicates(DictGet(reverse_edges, popped[j], <<>>))
           /\ Cardinality(Range(DictGet(reverse_edges, popped[j], <<>>))) >= 2

(***************************************************************************)
(* C25: on an acyclic graph with whole-hour weights, after the worklist    *)
(* phase the distance of each node n, 0 when the map has no entry, is the  *)
(* maximum over the forward paths that end at n of the weights of the      *)
(* path's nodes other than n; a node without prerequisites has distance 0. *)
(***************************************************************************)
MaxOf(S) == CHOOSE x \in S : \A y \in S : y <= x

Predecessors(n) == { p \in KeySet(edges) : IsEdge(edges, p, n) }

\* the heaviest forward path into n, n's own weight left out (acyclic graphs only)
RECURSIVE LongestInto(_)
LongestInto(n) ==
    IF Predecessors(n) = {} THEN 0
    ELSE MaxOf({ LongestInto(p) + weight(nodes, p) : p \in Predecessors(n) })

WholeHours == \A i \in 1..Len(tasks) : tasks[i].estimated_hours % 100 = 0

C25_DistanceIsLongestPath ==
    (PathComputed /\ Acyclic /\ WholeHours) =>
        \A n \in KeySet(nodes) : DictGet(longest_path, n, 0) = LongestInto(n)

C25_Witness ==
    /\ pc = "done"
    /\ Acyclic
    /\ WholeHours
    /\ \E n \in KeySet(nodes) :
           /\ Cardinality(Predecessors(n)) >= 2
           /\ \E p, q \in Predecessors(n) :
                  LongestInto(p) + weight(nodes, p) < LongestInto(q) + weight(nodes, q)
           /\ DictGet(longest_path, n, 0) = LongestInto(n)
           /\ LongestInto(n) >= 200

(***************************************************************************)
(* C26: whenever _detect_cycles returns, its result is non-empty exactly   *)
(* when the forward adjacency has a directed cycle, a self-edge included.  *)
(***************************************************************************)
CyclesReturned == pc \in {"worklist", "backtrack", "readiness", "built", "done"}

HasCycle == \E n \in EndPoints(edges) : OnCycle(edges, n)

C26_CyclesReportedIffCyclic == CyclesReturned => (cycles # <<>> <=> HasCycle)

C26_Witness ==
    /\ pc = "done"
    /\ HasCycle
    /\ cycles # <<>>
    /\ \E n \in EndPoints(edges) : ~OnCycle(edges, n)

(***************************************************************************)
(* C27: each top-level DFS of _detect_cycles records at most one cycle and *)
(* unwinds at once when it has recorded it, so the ids of that cycle stay  *)
(* in rec_stack; and any two cycles of the returned list have no id in     *)
(* common.                                                                 *)
(***************************************************************************)
C27_OneCyclePerRoot ==
    [][ /\ Len(cycles') <= Len(cycles) + 1
        /\ (pc = "detect_cycles" /\ Len(cycles') = Len(cycles) + 1) =>
               Range(cycles'[Len(cycles')]) \subseteq rec_stack' \ rec_stack
        /\ CyclesReturned' =>
               \A i, j \in 1..Len(cycles') :
                   i # j => Range(cycles'[i]) \cap Range(cycles'[j]) = {} ]_vars

C27_Witness ==
    /\ pc = "done"
    /\ Len(cycles) = 2
    /\ Range(cycles[1]) \cap Range(cycles[2]) = {}

(***************************************************************************)
(* C28: when _find_critical_path has returned a non-empty path, every      *)
(* consecutive pair (p, q) of it is an edge p -> q and its last id has the *)
(* maximal distance, the first such entry of the map on ties; the path is  *)
(* empty exactly when the distance map is empty, as it is for every graph  *)
(* without edges.                                                          *)
(***************************************************************************)
C28_PathFollowsEdges ==
    PathComputed =>
        /\ \A k \in 1..(Len(critical_path) - 1) :
               IsEdge(edges, critical_path[k], critical_path[k + 1])
        /\ critical_path # <<>> =>
               \E i \in 1..Len(longest_path) :
                   /\ longest_path[i].k = critical_path[Len(critical_path)]
                   /\ \A j \in 1..Len(longest_path) : longest_path[j].v <= longest_path[i].v
                   /\ \A j \in 1..(i - 1) : longest_path[j].v < longest_path[i].v
        /\ critical_path = <<>> <=> longest_path = <<>>
        /\ edges = <<>> => longest_path = <<>>

C28_Witness ==
    /\ pc = "done"
    /\ Len(critical_path) >= 3
    /\ \E i, j \in 1..Len(longest_path) :
           /\ i < j
           /\ longest_path[i].v = longest_path[j].v
           /\ longest_path[i].k = critical_path[Len(critical_path)]

(***************************************************************************)
(* C29: the forward and the reverse adjacency mirror each other: for all   *)
(* ids a and b, b occurs in forward[a] as many times as a in reverse[b].   *)
(***************************************************************************)
Count(s, x) == Cardinality({i \in 1..Len(s) : s[i] = x})

C29_AdjacencyMirrored ==
    Returned =>
    \A a, b \in KeySet(nodes) \cup EndPoints(edges) \cup EndPoints(reverse_edges) :
        Count(DictGet(edges, a, <<>>), b) = Count(DictGet(reverse_edges, b, <<>>), a)

C29_Witness ==
    /\ pc = "done"
    /\ \E a, b \in KeySet(nodes) :
           /\ Count(DictGet(edges, a, <<>>), b) = 2
           /\ Count(DictGet(reverse_edges, b, <<>>), a) = 2
           /\ Len(DictGet(reverse_edges, b, <<>>)) = 3

(***************************************************************************)
(* C30: one call of enhance_task_analysis appends "ready_for_execution" to *)
(* exactly the tasks of the ready list, "blocked_by_dependencies" to       *)
(* exactly those of the blocked list and "critical_path" to exactly those  *)
(* on the critical path, so a task that is not Completed gets exactly one  *)
(* of the two readiness tags and a Completed task gets neither; a second   *)
(* call on the same task objects returns the same summary and appends the  *)
(* tags a second time.                                                     *)
(***************************************************************************)
\* n copies of tag if the id is in the list ids, none otherwise
Tags(id, ids, tag, n) == IF id \in Range(ids) THEN [k \in 1..n |-> tag] ELSE <<>>

\* every task carries its tags n times
Tagged(n) ==
    \A i \in 1..Len(tasks) :
        LET id == task_id_of(tasks[i])
        IN  /\ tasks[i].success_patterns = Tags(id, ready_tasks, "ready_for_execution", n)
            /\ tasks[i].risk_factors = Tags(id, blocked_tasks, "blocked_by_dependencies", n)
            /\ tasks[i].complexity_indicators = Tags(id, critical_path, "critical_path", n)
            /\ IF tasks[i].status = "completed"
               THEN tasks[i].success_patterns = <<>> /\ tasks[i].risk_factors = <<>>
               ELSE Len(tasks[i].success_patterns) + Len(tasks[i].risk_factors) = n

EnhancedTwice == pc = "enhanced" /\ first # None /\ first.call = "enhance_task_analysis"

C30_TagsPerCall ==
    /\ (pc = "enhanced" /\ first = None) => Tagged(1)
    /\ EnhancedTwice => Tagged(2) /\ summary = first.summary

C30_Witness ==
    /\ EnhancedTwice
    /\ \E i, j, k \in 1..Len(tasks) :
           /\ tasks[i].status = "completed"
           /\ Len(tasks[j].success_patterns) = 2
           /\ Len(tasks[k].risk_factors) = 2
           /\ Len(tasks[k].complexity_indicators) = 2

====
